---------------------------- MODULE Spec2Model ----------------------------
(***************************************************************************)
(* Model of screen_feedback_agent: the speech-segment merge (audio.py),    *)
(* the snap-keyword cue detector and snapshot extraction/cleanup           *)
(* (snapshots.py) and the orchestration in run_pipeline (pipeline.py).     *)
(*                                                                         *)
(* Conventions                                                             *)
(*  - Times are integers counted in ticks of 0.5 s (2.0 s = 4 ticks).      *)
(*  - A text is a sequence of one-character strings; " " is the only       *)
(*    whitespace character of the modelled alphabet.                       *)
(*  - A cue timestamp is an exact rational [num, den] in lowest terms      *)
(*    (the code computes the same value in binary floating point).         *)
(***************************************************************************)
EXTENDS Integers, Sequences, FiniteSets, TLC

VARIABLES
    pc,              \* position of the running function / pipeline
    segments,        \* argument `segments` of merge / detect, or raw recognizer output
    params,          \* keyword arguments of the running call
    result,          \* value returned by the last completed call
    prev,            \* value returned by the call before it (kept by the caller)
    mode,            \* how the caller built the current argument from the last call
    speech_segments, \* run_pipeline: speech_segments
    snap_moments,    \* extract_all_snapshots: snap_moments
    snapshots,       \* extract_all_snapshots / cleanup_snapshots: snapshots
    run_snapshots,   \* run_pipeline: snapshots (bound only when step 2 returns)
    cursor,          \* index of the loop in progress
    files,           \* image files existing in snap_dir
    dir_exists,      \* whether output_dir exists
    calls,           \* external calls issued so far, in order
    error            \* exception that left run_pipeline, or "none"

vars == <<pc, segments, params, result, prev, mode, speech_segments, snap_moments,
          snapshots, run_snapshots, cursor, files, dir_exists, calls, error>>

pipeVars == <<speech_segments, snap_moments, snapshots, run_snapshots, cursor,
              files, dir_exists, calls, error>>

---------------------------------------------------------------------------
(* Bounds of the explored inputs *)

MaxSpans == 3       \* longest span list handed to merge
MaxTime == 2        \* latest tick of a span handed to merge
MaxGap == 1         \* largest gap_threshold handed to merge
MaxRaw == 2         \* longest list of recognizer segments
MaxSegs == 2        \* longest span list handed to detect_snap_moments
MaxSnaps == 2       \* longest Snapshot list handed to cleanup_snapshots
MaxPolls == 2       \* most get_file calls of one polling loop

---------------------------------------------------------------------------
(* Generic helpers *)

Max(a, b) == IF a >= b THEN a ELSE b
Min(a, b) == IF a <= b THEN a ELSE b
Last(s) == s[Len(s)]

RECURSIVE GCD(_, _)
GCD(a, b) == IF b = 0 THEN a ELSE GCD(b, a % b)

\* the rational n/d (n >= 0, d > 0) in lowest terms
Rat(n, d) == LET g == GCD(n, d) IN [num |-> n \div g, den |-> d \div g]

RECURSIVE SeqsUpTo(_, _)
SeqsUpTo(S, n) ==
    IF n = 0 THEN {<<>>}
    ELSE LET shorter == SeqsUpTo(S, n - 1)
         IN shorter \cup {Append(s, x) : s \in {t \in shorter : Len(t) = n - 1}, x \in S}

---------------------------------------------------------------------------
(* Python str operations on texts *)

Whitespace == {" "}

UpperCase == <<"A","B","C","D","E","F","G","H","I","J","K","L","M",
               "N","O","P","Q","R","S","T","U","V","W","X","Y","Z">>
LowerCase == <<"a","b","c","d","e","f","g","h","i","j","k","l","m",
               "n","o","p","q","r","s","t","u","v","w","x","y","z">>

\* str.lower() on one character: the capitals map to their small letters
LowerOf == [c \in {UpperCase[k] : k \in 1..Len(UpperCase)} |->
               LowerCase[CHOOSE k \in 1..Len(UpperCase) : UpperCase[k] = c]]
LowerChar(c) == IF c \in DOMAIN LowerOf THEN LowerOf[c] ELSE c

\* str.lower()
Lower(text) == [k \in 1..Len(text) |-> LowerChar(text[k])]

\* `needle in hay` on str
Contains(needle, hay) ==
    \E k \in 0..(Len(hay) - Len(needle)) : SubSeq(hay, k + 1, k + Len(needle)) = needle

\* str.strip()
RECURSIVE LStrip(_)
LStrip(text) ==
    IF text # <<>> /\ Head(text) \in Whitespace THEN LStrip(Tail(text)) ELSE text
RECURSIVE RStrip(_)
RStrip(text) ==
    IF text # <<>> /\ Last(text) \in Whitespace
    THEN RStrip(SubSeq(text, 1, Len(text) - 1)) ELSE text
Strip(text) == RStrip(LStrip(text))

\* str.split() with no argument: split at whitespace runs, no empty words
RECURSIVE SplitFrom(_, _, _, _)
SplitFrom(text, k, cur, acc) ==
    IF k > Len(text) THEN (IF cur = <<>> THEN acc ELSE Append(acc, cur))
    ELSE IF text[k] \in Whitespace
         THEN SplitFrom(text, k + 1, <<>>, IF cur = <<>> THEN acc ELSE Append(acc, cur))
         ELSE SplitFrom(text, k + 1, Append(cur, text[k]), acc)
Split(text) == SplitFrom(text, 1, <<>>, <<>>)

\* sep.join(words)
RECURSIVE Join(_, _)
Join(words, sep) ==
    IF words = <<>> THEN <<>>
    ELSE IF Len(words) = 1 THEN words[1]
    ELSE words[1] \o sep \o Join(Tail(words), sep)

---------------------------------------------------------------------------
(* audio.py: SpeechSegment and merge_speech_segments *)

SpeechSegment(start, end, text) == [start |-> start, end |-> end, text |-> text]

\* the boundary of line 97 made exclusive
MergeBody_Strict(merged, seg, gap_threshold) ==
    LET p == Last(merged) IN
    IF seg.start < p.end + gap_threshold
    THEN [merged EXCEPT ![Len(merged)] =
            SpeechSegment(p.start, Max(p.end, seg.end), p.text \o <<" ">> \o seg.text)]
    ELSE Append(merged, SpeechSegment(seg.start, seg.end, seg.text))

\* absorbing truncates the end to the absorbed span's end
MergeBody_NoMax(merged, seg, gap_threshold) ==
    LET p == Last(merged) IN
    IF seg.start <= p.end + gap_threshold
    THEN [merged EXCEPT ![Len(merged)] =
            SpeechSegment(p.start, seg.end, p.text \o <<" ">> \o seg.text)]
    ELSE Append(merged, SpeechSegment(seg.start, seg.end, seg.text))

\* one iteration of the loop over segments[1:]
\* the absorbed text written before the text already merged
MergeBody_SwapText(merged, seg, gap_threshold) ==
    LET p == Last(merged) IN
    IF seg.start <= p.end + gap_threshold
    THEN [merged EXCEPT ![Len(merged)] =
            SpeechSegment(p.start, Max(p.end, seg.end), seg.text \o <<" ">> \o p.text)]
    ELSE Append(merged, SpeechSegment(seg.start, seg.end, seg.text))

\* absorbing leaves the end of the merged interval as it was
MergeBody_KeepEnd(merged, seg, gap_threshold) ==
    LET p == Last(merged) IN
    IF seg.start <= p.end + gap_threshold
    THEN [merged EXCEPT ![Len(merged)] =
            SpeechSegment(p.start, p.end, p.text \o <<" ">> \o seg.text)]
    ELSE Append(merged, SpeechSegment(seg.start, seg.end, seg.text))

MergeBody(merged, seg, gap_threshold) ==
    LET p == Last(merged) IN
    IF seg.start <= p.end + gap_threshold
    THEN [merged EXCEPT ![Len(merged)] =
            SpeechSegment(p.start, Max(p.end, seg.end), p.text \o <<" ">> \o seg.text)]
    ELSE Append(merged, SpeechSegment(seg.start, seg.end, seg.text))

RECURSIVE MergeLoop(_, _, _, _)
MergeLoop(merged, segs, k, gap_threshold) ==
    IF k > Len(segs) THEN merged
    ELSE MergeLoop(MergeBody(merged, segs[k], gap_threshold), segs, k + 1, gap_threshold)

\* the loop stops one span early
merge_speech_segments_DropLast(segs, gap_threshold) ==
    IF segs = <<>> THEN <<>>
    ELSE MergeLoop(<<SpeechSegment(segs[1].start, segs[1].end, segs[1].text)>>,
                   SubSeq(segs, 1, Max(1, Len(segs) - 1)), 2, gap_threshold)

\* the guard of line 87 returning [] for lists shorter than two spans
merge_speech_segments_ShortIsEmpty(segs, gap_threshold) ==
    IF Len(segs) < 2 THEN <<>>
    ELSE MergeLoop(<<SpeechSegment(segs[1].start, segs[1].end, segs[1].text)>>,
                   segs, 2, gap_threshold)

merge_speech_segments(segs, gap_threshold) ==
    IF segs = <<>> THEN <<>>
    ELSE MergeLoop(<<SpeechSegment(segs[1].start, segs[1].end, segs[1].text)>>,
                   segs, 2, gap_threshold)

---------------------------------------------------------------------------
(* audio.py: merge_segments, the merge on (start, end) tuples *)

\* the comparison of line 187 made exclusive
MergeTupleBody_Strict(merged, t, gap_threshold) ==
    LET p == Last(merged) IN
    IF t[1] < p[2] + gap_threshold
    THEN [merged EXCEPT ![Len(merged)] = <<p[1], Max(p[2], t[2])>>]
    ELSE Append(merged, <<t[1], t[2]>>)

MergeTupleBody(merged, t, gap_threshold) ==
    LET p == Last(merged) IN
    IF t[1] <= p[2] + gap_threshold
    THEN [merged EXCEPT ![Len(merged)] = <<p[1], Max(p[2], t[2])>>]
    ELSE Append(merged, <<t[1], t[2]>>)

RECURSIVE MergeTupleLoop(_, _, _, _)
MergeTupleLoop(merged, tuples, k, gap_threshold) ==
    IF k > Len(tuples) THEN merged
    ELSE MergeTupleLoop(MergeTupleBody(merged, tuples[k], gap_threshold),
                        tuples, k + 1, gap_threshold)

merge_segments(tuples, gap_threshold) ==
    IF tuples = <<>> THEN <<>>
    ELSE MergeTupleLoop(<<tuples[1]>>, tuples, 2, gap_threshold)

---------------------------------------------------------------------------
(* audio.py: detect_speech_segments_whisper, after model.transcribe returned *)

padding_before_default == 4     \* padding_before = 2.0 s
padding_after_default == 4      \* padding_after = 2.0 s
merge_gap_default == 2          \* merge_gap = 1.0 s
min_duration_default == 1       \* min_duration = 0.5 s

WhisperDefaults ==
    [padding_before |-> padding_before_default,
     padding_after  |-> padding_after_default,
     merge_gap      |-> merge_gap_default,
     min_duration   |-> min_duration_default]

\* the duration test applied to the padded span instead of the raw one
KeepSegment_Padded(segment, kw) ==
    (segment.end + kw.padding_after) - Max(0, segment.start - kw.padding_before)
        >= kw.min_duration

\* the test of line 60
KeepSegment(segment, kw) == segment.end - segment.start >= kw.min_duration

\* the padded start of line 62 without max(0, ...)
PadSegment_NoClamp(segment, kw) ==
    SpeechSegment(segment.start - kw.padding_before,
                  segment.end + kw.padding_after,
                  Strip(segment.text))

\* the padded span of lines 61-65
PadSegment(segment, kw) ==
    SpeechSegment(Max(0, segment.start - kw.padding_before),
                  segment.end + kw.padding_after,
                  Strip(segment.text))

RECURSIVE WhisperLoop(_, _, _, _)
WhisperLoop(raw, k, kw, acc) ==
    IF k > Len(raw) THEN acc
    ELSE WhisperLoop(raw, k + 1, kw,
                     IF KeepSegment(raw[k], kw) THEN Append(acc, PadSegment(raw[k], kw))
                     ELSE acc)

\* `raw` is the list of segments model.transcribe yields
detect_speech_segments_whisper(raw, kw) ==
    merge_speech_segments(WhisperLoop(raw, 1, kw, <<>>), kw.merge_gap)

---------------------------------------------------------------------------
(* snapshots.py: detect_snap_moments *)

K_snap == <<"s","n","a","p">>
K_screenshot == <<"s","c","r","e","e","n","s","h","o","t">>
K_capture == <<"c","a","p","t","u","r","e">>
K_here == <<"h","e","r","e">>
SNAP_KEYWORDS == <<K_snap, K_screenshot, K_capture, K_here>>

\* A cue is the tuple (timestamp, context) of line 64.  The fields seg, keyword
\* and word record where the scan stood when it was appended (0-based word index,
\* 1-based span and keyword positions); the program does not store them.
\* the ratio of line 56 taken with floor division
Cue_FloorDiv(segment, sidx, kidx, words, i) ==
    LET n == Max(Len(words), 1)
        start_idx == Max(0, i - 3)
        end_idx == Min(Len(words), i + 4)
    IN [timestamp |-> Rat(segment.start + (segment.end - segment.start) * (i \div n), 1),
        context   |-> Join(SubSeq(words, start_idx + 1, end_idx), <<" ">>),
        seg       |-> sidx,
        keyword   |-> kidx,
        word      |-> i]

\* the word index of line 56 counted from one
Cue_OneBased(segment, sidx, kidx, words, i) ==
    LET n == Max(Len(words), 1)
        start_idx == Max(0, i - 3)
        end_idx == Min(Len(words), i + 4)
    IN [timestamp |-> Rat(segment.start * n + (segment.end - segment.start) * (i + 1), n),
        context   |-> Join(SubSeq(words, start_idx + 1, end_idx), <<" ">>),
        seg       |-> sidx,
        keyword   |-> kidx,
        word      |-> i]

\* the slice of line 60 ending one word earlier
Cue_NarrowWindow(segment, sidx, kidx, words, i) ==
    LET n == Max(Len(words), 1)
        start_idx == Max(0, i - 3)
        end_idx == Min(Len(words), i + 3)
    IN [timestamp |-> Rat(segment.start * n + (segment.end - segment.start) * i, n),
        context   |-> Join(SubSeq(words, start_idx + 1, end_idx), <<" ">>),
        seg       |-> sidx,
        keyword   |-> kidx,
        word      |-> i]

Cue(segment, sidx, kidx, words, i) ==
    LET n == Max(Len(words), 1)
        start_idx == Max(0, i - 3)
        end_idx == Min(Len(words), i + 4)
    IN [timestamp |-> Rat(segment.start * n + (segment.end - segment.start) * i, n),
        context   |-> Join(SubSeq(words, start_idx + 1, end_idx), <<" ">>),
        seg       |-> sidx,
        keyword   |-> kidx,
        word      |-> i]

\* the cue put at the front of the list
AppendCue_Front(moments, cue) == <<cue>> \o moments

\* snap_moments.append of line 64
AppendCue(moments, cue) == Append(moments, cue)

\* for i, word in enumerate(words)
RECURSIVE WordLoop(_, _, _, _, _, _, _)
WordLoop(segment, sidx, keyword, kidx, words, i, acc) ==
    IF i >= Len(words) THEN acc
    ELSE WordLoop(segment, sidx, keyword, kidx, words, i + 1,
                  IF Contains(keyword, Lower(words[i + 1]))
                  THEN AppendCue(acc, Cue(segment, sidx, kidx, words, i))
                  ELSE acc)

\* for keyword in keywords
RECURSIVE KeywordLoop(_, _, _, _, _)
KeywordLoop(segment, sidx, keywords, kidx, acc) ==
    IF kidx > Len(keywords) THEN acc
    ELSE KeywordLoop(segment, sidx, keywords, kidx + 1,
                     IF Contains(keywords[kidx], Lower(segment.text))
                     THEN WordLoop(segment, sidx, keywords[kidx], kidx,
                                   Split(segment.text), 0, acc)
                     ELSE acc)

\* for segment in segments
RECURSIVE SegmentLoop(_, _, _, _)
SegmentLoop(segs, sidx, keywords, acc) ==
    IF sidx > Len(segs) THEN acc
    ELSE SegmentLoop(segs, sidx + 1, keywords,
                     KeywordLoop(segs[sidx], sidx, keywords, 1, acc))

\* keywords is [none |-> TRUE] for the argument left out (None),
\* [none |-> FALSE, list |-> ...] for a list given by the caller
detect_snap_moments(segs, keywords) ==
    SegmentLoop(segs, 1, IF keywords.none THEN SNAP_KEYWORDS ELSE keywords.list, <<>>)

---------------------------------------------------------------------------
(* snapshots.py: Snapshot, extract_frame's output path *)

Snapshot(timestamp, image_path, context) ==
    [timestamp |-> timestamp, image_path |-> image_path, context |-> context]

\* f"{timestamp:.2f}": the number of hundredths of a second the text shows.
\* A tick is 50 hundredths; the exact value is rounded half to even.
Fmt2(timestamp) ==
    LET n == 50 * timestamp.num
        q == n \div timestamp.den
        r == n % timestamp.den
    IN IF 2 * r > timestamp.den THEN q + 1
       ELSE IF 2 * r < timestamp.den THEN q
       ELSE IF q % 2 = 0 THEN q ELSE q + 1

\* output_dir / f"snap_{timestamp:.2f}.png": the file is identified by the
\* formatted timestamp, output_dir being the one directory of the run
OutputPath(timestamp) == Fmt2(timestamp)

Call(op, cue, path, ok) == [op |-> op, cue |-> cue, path |-> path, ok |-> ok]

---------------------------------------------------------------------------
(* gemini.py: the prompt analyze_video hands to generate_content.  A prompt *)
(* part is a record: its kind and the Snapshots it shows or describes.      *)

\* an optional list argument: None, or a list
NoneArg == [none |-> TRUE, list |-> <<>>]
ListArg(l) == [none |-> FALSE, list |-> l]

\* `if segments`, `if snapshots`: None and the empty list are false
Truthy(arg) == ~arg.none /\ arg.list # <<>>

PromptPart(kind, snaps) == [kind |-> kind, snaps |-> snaps]

\* the three parts appended per Snapshot, lines 314-317
RECURSIVE SnapshotParts(_, _)
SnapshotParts(snaps, k) ==
    IF k > Len(snaps) THEN <<>>
    ELSE <<PromptPart("snapshot_header", <<snaps[k]>>),
           PromptPart("snapshot_context", <<snaps[k]>>),
           PromptPart("snapshot_image", <<snaps[k]>>)>> \o SnapshotParts(snaps, k + 1)

\* ENHANCED_ANALYSIS_PROMPT filled by build_enhanced_prompt: the text describes
\* the given Snapshots ("No snapshots captured." when the list is empty)
build_enhanced_prompt(snaps) == PromptPart("enhanced_prompt", snaps)

\* ENHANCED_ANALYSIS_PROMPT filled by the fallback of lines 398-403: plain
\* transcription and the fixed text "No snapshots captured."
FallbackPrompt == PromptPart("fallback_prompt", <<>>)

build_multimodal_prompt(snaps) ==
    <<PromptPart("video_file", <<>>)>> \o SnapshotParts(snaps, 1)
        \o <<build_enhanced_prompt(snaps)>>

\* the branch analyze_video takes for its arguments, lines 355-404
AnalyzeBranch(segs, snaps) ==
    IF Truthy(segs) /\ Truthy(snaps) THEN "multimodal"
    ELSE IF Truthy(segs) THEN "enhanced"
    ELSE "fallback"

\* prompt_parts as analyze_video builds them
PromptParts(segs, snaps) ==
    IF AnalyzeBranch(segs, snaps) = "multimodal" THEN build_multimodal_prompt(snaps.list)
    ELSE IF AnalyzeBranch(segs, snaps) = "enhanced"
         THEN <<PromptPart("video_file", <<>>), build_enhanced_prompt(<<>>)>>
    ELSE <<PromptPart("video_file", <<>>), FallbackPrompt>>

---------------------------------------------------------------------------
(* Specification SpecMerge: a caller applying merge_speech_segments to      *)
(* span lists it grows one span at a time, and to merge's own output.      *)

T_A == <<"A">>
T_B == <<"B">>
MergeTexts == {T_A, T_B}

\* spans with start <= end
MergeSpans ==
    {SpeechSegment(s, e, t) : s \in 0..MaxTime, e \in 0..MaxTime, t \in MergeTexts}
    \ {x \in [start : 0..MaxTime, end : 0..MaxTime, text : MergeTexts] : x.start > x.end}

NoPipe ==
    /\ speech_segments = <<>>
    /\ snap_moments = <<>>
    /\ snapshots = <<>>
    /\ run_snapshots = [bound |-> FALSE, list |-> <<>>]
    /\ cursor = 0
    /\ files = {}
    /\ dir_exists = FALSE
    /\ calls = <<>>
    /\ error = "none"

InitMerge ==
    /\ pc = "merge_call"
    /\ segments = <<>>
    /\ params \in [gap_threshold : 0..MaxGap]
    /\ result = <<>>
    /\ prev = <<>>
    /\ mode = "first"
    /\ NoPipe

\* the call merge_speech_segments(segments, gap_threshold) runs to its return
MergeCall ==
    /\ pc = "merge_call"
    /\ result' = merge_speech_segments(segments, params.gap_threshold)
    /\ prev' = result
    /\ pc' = "merge_return"
    /\ UNCHANGED <<segments, params, mode, pipeVars>>

\* the caller calls again with one more span at the end of the list
MergeExtend ==
    /\ pc = "merge_return"
    /\ mode \in {"first", "extended"}
    /\ Len(segments) < MaxSpans
    /\ \E span \in MergeSpans : segments' = Append(segments, span)
    /\ mode' = "extended"
    /\ pc' = "merge_call"
    /\ UNCHANGED <<params, result, prev, pipeVars>>

\* the caller feeds the returned list back to merge with the same threshold
MergeAgain ==
    /\ pc = "merge_return"
    /\ mode \in {"first", "extended"}
    /\ segments' = result
    /\ mode' = "again"
    /\ pc' = "merge_call"
    /\ UNCHANGED <<params, result, prev, pipeVars>>

NextMerge == MergeCall \/ MergeExtend \/ MergeAgain

SpecMerge == InitMerge /\ [][NextMerge]_vars


\* C1: every list returned by merge_speech_segments has start <= end in every
\* interval and end[i] + gap_threshold < start[i+1] for consecutive intervals,
\* hence any two intervals are disjoint and more than gap_threshold apart.
C1_MergeSeparated ==
    pc = "merge_return" =>
        /\ \A k \in 1..Len(result) : result[k].start <= result[k].end
        /\ \A k \in 1..(Len(result) - 1) :
              result[k].end + params.gap_threshold < result[k + 1].start
        /\ \A a, b \in 1..Len(result) :
              a < b => result[a].end + params.gap_threshold < result[b].start

\* three spans went in, at least one was absorbed and two intervals came out
C1_Witness ==
    /\ pc = "merge_return"
    /\ mode = "extended"
    /\ Len(segments) = 3
    /\ Len(result) = 2

\* C2: merging the list merge returned, with the same threshold, returns that
\* list again (same length, same start, end and text at every position).
C2_MergeIdempotent ==
    (pc = "merge_return" /\ mode = "again") =>
        /\ Len(result) = Len(prev)
        /\ \A k \in 1..Len(result) :
              /\ result[k].start = prev[k].start
              /\ result[k].end = prev[k].end
              /\ result[k].text = prev[k].text

\* the list merged a second time has two intervals, one of them built by absorbing
C2_Witness ==
    /\ pc = "merge_return"
    /\ mode = "again"
    /\ Len(prev) = 2
    /\ \E k \in 1..Len(prev) : Len(prev[k].text) > 1

\* C3: merge is a left fold seeded with the first span: the result for S + [span]
\* is the result for S with span absorbed into its last interval exactly when
\* span.start <= last.end + gap_threshold (end becomes the larger end, start
\* stays, text is last.text + " " + span.text), else with span appended.
C3_MergeFold ==
    (pc = "merge_return" /\ mode # "again") =>
        /\ Len(segments) = 1 => result = <<segments[1]>>
        /\ Len(segments) >= 2 =>
              LET span == Last(segments)
                  last == Last(prev)
              IN  IF span.start <= last.end + params.gap_threshold
                  THEN /\ Len(result) = Len(prev)
                       /\ \A k \in 1..(Len(prev) - 1) : result[k] = prev[k]
                       /\ Last(result).start = last.start
                       /\ Last(result).end = (IF last.end >= span.end
                                              THEN last.end ELSE span.end)
                       /\ Last(result).text = last.text \o <<" ">> \o span.text
                  ELSE result = prev \o <<span>>

\* a third span lying strictly inside the running interval was absorbed
C3_Witness ==
    /\ pc = "merge_return"
    /\ mode = "extended"
    /\ Len(segments) = 3
    /\ Last(segments).start >= Last(prev).start
    /\ Last(segments).end < Last(prev).end
    /\ Len(result) = Len(prev)


---------------------------------------------------------------------------
(* Specification SpecWhisper: detect_speech_segments_whisper applied to    *)
(* the segments a recognizer returned, for varying keyword arguments.      *)

R_click == <<" ","c","l","i","c","k"," ">>
R_speech == <<" ","A","c","t","u","a","l"," ","s","p","e","e","c","h"," ">>
RawTexts == {R_click, R_speech}

Pads == {0, 2}
MinDurations == {1, 2}

RawSpans == {x \in [start : 0..MaxTime, end : 0..MaxTime, text : RawTexts] :
                x.start <= x.end}

\* a recognizer reports its segments in non-decreasing start order
Ordered(segs) == \A k \in 1..(Len(segs) - 1) : segs[k].start <= segs[k + 1].start

RawLists == {l \in SeqsUpTo(RawSpans, MaxRaw) : Ordered(l)}

InitWhisper ==
    /\ pc = "whisper_call"
    /\ segments \in RawLists
    /\ params \in [padding_before : Pads, padding_after : Pads,
                   merge_gap : 0..MaxGap, min_duration : MinDurations]
    /\ result = <<>>
    /\ prev = <<>>
    /\ mode = "first"
    /\ NoPipe

WhisperCall ==
    /\ pc = "whisper_call"
    /\ result' = detect_speech_segments_whisper(segments, params)
    /\ pc' = "whisper_return"
    /\ UNCHANGED <<segments, params, prev, mode, pipeVars>>

NextWhisper == WhisperCall

SpecWhisper == InitWhisper /\ [][NextWhisper]_vars

\* the recognizer segments whose raw duration reaches min_duration
RawKept == SelectSeq(segments, LAMBDA x : x.end - x.start >= params.min_duration)

\* C4: a recognizer segment whose raw duration is below min_duration contributes
\* nothing to the returned intervals: their texts, space-joined, are the stripped
\* texts of the other segments in order, and every returned start and end is the
\* padded start and the padded end of one of the other segments.
C4_FilterOnRawDuration ==
    pc = "whisper_return" =>
        /\ Join([k \in 1..Len(result) |-> result[k].text], <<" ">>)
              = Join([k \in 1..Len(RawKept) |-> Strip(RawKept[k].text)], <<" ">>)
        /\ \A k \in 1..Len(result) :
              /\ \E j \in 1..Len(RawKept) :
                    result[k].start = Max(0, RawKept[j].start - params.padding_before)
              /\ \E j \in 1..Len(RawKept) :
                    result[k].end = RawKept[j].end + params.padding_after
        /\ (RawKept = <<>>) => (result = <<>>)

\* a segment too short raw but long enough padded was dropped beside a kept one
C4_Witness ==
    /\ pc = "whisper_return"
    /\ Len(segments) = 2
    /\ Len(RawKept) = 1
    /\ Len(result) = 1
    /\ \E k \in 1..2 :
          /\ segments[k].end - segments[k].start < params.min_duration
          /\ (segments[k].end + params.padding_after)
                - Max(0, segments[k].start - params.padding_before) >= params.min_duration
          /\ segments[k].text # segments[3 - k].text

---------------------------------------------------------------------------
(* Specification SpecDetect: detect_snap_moments applied to span lists,    *)
(* with the default keywords and with keyword lists given by the caller.   *)

D_here_snap == <<"H","e","r","e"," ","s","n","a","p">>
D_ok == <<"o","k">>
D_snap_x_snaphere == <<"S","N","A","P"," ","x"," ","s","n","a","p","h","e","r","e">>
DetectTexts == {D_here_snap, D_ok, D_snap_x_snaphere}

\* a keyword the caller writes in capitals
K_SNAP == <<"S","N","A","P">>

KeywordArgs ==
    {[none |-> TRUE, list |-> <<>>],
     [none |-> FALSE, list |-> <<K_snap>>],
     [none |-> FALSE, list |-> <<K_here, K_snap>>],
     [none |-> FALSE, list |-> <<K_SNAP>>]}

\* two spans of ten seconds (twenty ticks) with a keyword in the middle of the text
TenSeconds == 20
D_word1_word2_snap_word4_word5 ==
    <<"w","o","r","d","1"," ","w","o","r","d","2"," ","s","n","a","p"," ",
      "w","o","r","d","4"," ","w","o","r","d","5">>
D_a_b_c_d_snap_e_f_g_h ==
    <<"a"," ","b"," ","c"," ","d"," ","s","n","a","p"," ","e"," ","f"," ","g"," ","h">>
DetectExamples ==
    {SpeechSegment(0, TenSeconds, D_word1_word2_snap_word4_word5),
     SpeechSegment(0, TenSeconds, D_a_b_c_d_snap_e_f_g_h)}

DetectSpans == {x \in [start : 0..MaxTime, end : 0..MaxTime, text : DetectTexts] :
                   x.start <= x.end}
               \cup DetectExamples

InitDetect ==
    /\ pc = "detect_call"
    /\ segments \in SeqsUpTo(DetectSpans, MaxSegs)
    /\ params \in [keywords : KeywordArgs]
    /\ result = <<>>
    /\ prev = <<>>
    /\ mode = "first"
    /\ NoPipe

DetectCall ==
    /\ pc = "detect_call"
    /\ result' = detect_snap_moments(segments, params.keywords)
    /\ pc' = "detect_return"
    /\ UNCHANGED <<segments, params, prev, mode, pipeVars>>

NextDetect == DetectCall

SpecDetect == InitDetect /\ [][NextDetect]_vars

\* the keyword list of the call (the default list when the argument is None)
KeywordsOfCall == IF params.keywords.none THEN SNAP_KEYWORDS ELSE params.keywords.list

\* the words of span s of the call
WordsOf(s) == Split(segments[s].text)

\* the cues emitted for word i of span s and keyword k
CuesFor(s, k, i) ==
    {c \in 1..Len(result) :
        result[c].seg = s /\ result[c].keyword = k /\ result[c].word = i}

\* C10 as stated: the cues follow the scan order of the span list and, within one
\* span, appear in non-decreasing word index.
C10_WordOrderWithinSpan ==
    pc = "detect_return" =>
        \A a, b \in 1..Len(result) :
            a < b => /\ result[a].seg <= result[b].seg
                     /\ result[a].seg = result[b].seg => result[a].word <= result[b].word

\* C10 amended: the cues follow the scan order of the span list; within one span
\* they are grouped by keyword in keyword-list order, and within one keyword of a
\* span they appear in increasing word index.
C10_ScanOrder ==
    pc = "detect_return" =>
        \A a, b \in 1..Len(result) :
            a < b =>
              /\ result[a].seg <= result[b].seg
              /\ result[a].seg = result[b].seg =>
                    /\ result[a].keyword <= result[b].keyword
                    /\ result[a].keyword = result[b].keyword =>
                          result[a].word < result[b].word

\* two spans with cues, the second one with two keywords hitting several words
C10_Witness ==
    /\ pc = "detect_return"
    /\ Len(segments) = 2
    /\ \E a, b, c \in 1..Len(result) :
          /\ a < b /\ b < c
          /\ result[a].seg = 1
          /\ result[b].seg = 2 /\ result[c].seg = 2
          /\ result[b].keyword < result[c].keyword
          /\ result[b].word > result[c].word

\* C11 as stated: for every word w of every span and every keyword k of the call,
\* in any letter case, a cue is emitted for w exactly when k, compared without
\* regard to case, is a substring of w.
C11_CaseInsensitiveMatch ==
    pc = "detect_return" =>
        \A s \in 1..Len(segments) :
            \A k \in 1..Len(KeywordsOfCall) :
                \A i \in 0..(Len(WordsOf(s)) - 1) :
                    CuesFor(s, k, i) # {}
                        <=> Contains(Lower(KeywordsOfCall[k]), Lower(WordsOf(s)[i + 1]))

\* C12 as stated: there is exactly one cue per (span, keyword, word index) triple
\* whose word matches the keyword (the keyword is a case-insensitive substring of
\* the word) and none for any other triple; nothing is deduplicated, so a word
\* matching two distinct keywords has two cues with equal timestamp and context;
\* the result is empty when the span list is empty or no word matches a keyword.
C12_OneCuePerMatch ==
    LET matches(s, k, i) ==
            Contains(Lower(KeywordsOfCall[k]), Lower(WordsOf(s)[i + 1]))
        triples == UNION {{<<s, k, i>> : k \in 1..Len(KeywordsOfCall),
                                         i \in 0..(Len(WordsOf(s)) - 1)} :
                          s \in 1..Len(segments)}
    IN pc = "detect_return" =>
        /\ \A t \in triples :
              Cardinality(CuesFor(t[1], t[2], t[3])) =
                  IF matches(t[1], t[2], t[3]) THEN 1 ELSE 0
        /\ Len(result) = Cardinality({t \in triples : matches(t[1], t[2], t[3])})
        /\ \A a, b \in 1..Len(result) :
              (result[a].seg = result[b].seg /\ result[a].word = result[b].word)
                  => /\ result[a].timestamp = result[b].timestamp
                     /\ result[a].context = result[b].context
        /\ (segments = <<>> \/ {t \in triples : matches(t[1], t[2], t[3])} = {})
              => result = <<>>

\* C13: the timestamp of a cue found at word index i of a span with n words is
\* span.start + (span.end - span.start) * i / max(n, 1); for the span of ten
\* seconds from 0 with five words and the keyword at index 2 it is four seconds.
C13_TimestampInterpolated ==
    pc = "detect_return" =>
        /\ \A c \in 1..Len(result) :
              LET span == segments[result[c].seg]
                  n == Max(Len(WordsOf(result[c].seg)), 1)
                  ts == result[c].timestamp
              IN /\ ts.den > 0
                 /\ ts.num * n = ts.den * (span.start * n + (span.end - span.start) * result[c].word)
        /\ (segments = <<SpeechSegment(0, TenSeconds, D_word1_word2_snap_word4_word5)>>
             /\ params.keywords.none)
              => /\ Len(result) = 1
                 /\ result[1].word = 2
                 /\ result[1].timestamp = [num |-> 8, den |-> 1]

\* the ten-second example, and a cue whose timestamp is not a whole tick
C13_Witness ==
    /\ pc = "detect_return"
    /\ params.keywords.none
    /\ \E c \in 1..Len(result) :
          /\ segments[result[c].seg] = SpeechSegment(0, TenSeconds, D_word1_word2_snap_word4_word5)
          /\ result[c].word = 2
          /\ result[c].timestamp = [num |-> 8, den |-> 1]
    /\ \E c \in 1..Len(result) : result[c].timestamp.den = 3

\* C14: every cue timestamp lies within the window of the span it came from: for
\* a span with end > start, span.start <= timestamp < span.end, the timestamp is
\* span.start exactly when the keyword is the first word and is later otherwise.
C14_TimestampInsideSpan ==
    pc = "detect_return" =>
        \A c \in 1..Len(result) :
            LET span == segments[result[c].seg]
                ts == result[c].timestamp
            IN span.end > span.start =>
                  /\ span.start * ts.den <= ts.num
                  /\ ts.num < span.end * ts.den
                  /\ (ts.num = span.start * ts.den) <=> (result[c].word = 0)
                  /\ result[c].word > 0 => ts.num > span.start * ts.den

\* a span of positive length with a cue on its first word and a cue on its last
C14_Witness ==
    /\ pc = "detect_return"
    /\ \E a, b \in 1..Len(result) :
          /\ result[a].seg = result[b].seg
          /\ segments[result[a].seg].end > segments[result[a].seg].start
          /\ result[a].word = 0
          /\ result[a].timestamp = [num |-> segments[result[a].seg].start, den |-> 1]
          /\ result[b].word = Len(WordsOf(result[b].seg)) - 1
          /\ result[b].word > 0

\* C15: the context of every cue is the space-joined words of its span from index
\* max(0, i - 3) to min(n, i + 4) exclusive (a radius of three words): it never
\* has more than seven words and always contains the triggering word at index i.
C15_ContextWindow ==
    pc = "detect_return" =>
        \A c \in 1..Len(result) :
            LET words == WordsOf(result[c].seg)
                i == result[c].word
                lo == Max(0, i - 3)
                hi == Min(Len(words), i + 3 + 1)
                ctx == Split(result[c].context)
            IN /\ Len(ctx) = hi - lo
               /\ \A j \in 1..Len(ctx) : ctx[j] = words[lo + j]
               /\ result[c].context = Join(ctx, <<" ">>)
               /\ Len(ctx) <= 2 * 3 + 1
               /\ i - lo + 1 \in 1..Len(ctx)
               /\ ctx[i - lo + 1] = words[i + 1]

\* a cue in the middle of nine words: the context is cut on both sides
C15_Witness ==
    /\ pc = "detect_return"
    /\ \E c \in 1..Len(result) :
          /\ segments[result[c].seg].text = D_a_b_c_d_snap_e_f_g_h
          /\ result[c].word = 4
          /\ result[c].context =
                 <<"b"," ","c"," ","d"," ","s","n","a","p"," ","e"," ","f"," ","g">>

---------------------------------------------------------------------------
(* Specification Spec: run_pipeline on the segments a recognizer returned. *)
(* The external tools (ffmpeg, the analysis service, the file system) may  *)
(* succeed or fail at every call.                                          *)

P_snap == <<" ","s","n","a","p"," ">>
P_snaphere == <<"s","n","a","p","h","e","r","e">>
PipeTexts == {P_snap, D_here_snap, D_ok, P_snaphere}

\* a segment recognized so much later than the others that padding and the
\* merge gap cannot join it to them
FarStart == MaxTime + padding_before_default + padding_after_default
               + merge_gap_default + 1
PipeLateSpans == {SpeechSegment(FarStart, FarStart + 1, P_snap)}

PipeSpans == {x \in [start : 0..MaxTime, end : 0..MaxTime, text : PipeTexts] :
                 x.start <= x.end}
             \cup PipeLateSpans

PipeLists == {l \in SeqsUpTo(PipeSpans, MaxRaw) : Ordered(l)}

Init ==
    /\ pc = "step1"
    /\ segments \in PipeLists
    /\ params = WhisperDefaults
    /\ result = <<>>
    /\ prev = <<>>
    /\ mode = "first"
    /\ NoPipe

callVars == <<segments, params, result, prev, mode>>

\* Step 1: detect_speech_segments_whisper with its default arguments
DetectSpeech ==
    /\ pc = "step1"
    /\ speech_segments' = detect_speech_segments_whisper(segments, params)
    /\ pc' = "step2"
    /\ UNCHANGED <<callVars, snap_moments, snapshots, run_snapshots, cursor,
                   files, dir_exists, calls, error>>

\* extract_all_snapshots entered without the mkdir of line 118
ExtractAllBegin_NoMkdir ==
    /\ pc = "step2"
    /\ snap_moments' = detect_snap_moments(speech_segments, [none |-> TRUE, list |-> <<>>])
    /\ snapshots' = <<>>
    /\ cursor' = 0
    /\ pc' = "extract_loop"
    /\ UNCHANGED <<callVars, speech_segments, run_snapshots, files, dir_exists, calls,
                   error>>

\* Step 2, entry of extract_all_snapshots: mkdir, detect_snap_moments
ExtractAllBegin ==
    /\ pc = "step2"
    /\ dir_exists' = TRUE
    /\ snap_moments' = detect_snap_moments(speech_segments, [none |-> TRUE, list |-> <<>>])
    /\ snapshots' = <<>>
    /\ cursor' = 0
    /\ pc' = "extract_loop"
    /\ UNCHANGED <<callVars, speech_segments, run_snapshots, files, calls, error>>

\* a failed extraction is skipped and the loop goes on
ExtractFrameFail_Skip ==
    /\ pc = "extract_loop"
    /\ cursor < Len(snap_moments)
    /\ LET cue == snap_moments[cursor + 1]
       IN calls' = Append(calls, Call("extract_frame", cursor + 1,
                                      OutputPath(cue.timestamp), FALSE))
    /\ cursor' = cursor + 1
    /\ UNCHANGED <<callVars, pc, error, speech_segments, snap_moments, snapshots,
                   run_snapshots, files, dir_exists>>

\* extract_frame: ffmpeg exits nonzero, subprocess.run(check=True) raises, and the
\* exception leaves extract_all_snapshots and run_pipeline
ExtractFrameFail ==
    /\ pc = "extract_loop"
    /\ cursor < Len(snap_moments)
    /\ LET cue == snap_moments[cursor + 1]
       IN calls' = Append(calls, Call("extract_frame", cursor + 1,
                                      OutputPath(cue.timestamp), FALSE))
    /\ error' = "CalledProcessError(extract_frame)"
    /\ pc' = "raised"
    /\ UNCHANGED <<callVars, speech_segments, snap_moments, snapshots, run_snapshots,
                   cursor, files, dir_exists>>

\* the new Snapshot is put in front of the earlier ones
ExtractFrameOk_Prepend ==
    /\ pc = "extract_loop"
    /\ cursor < Len(snap_moments)
    /\ LET cue == snap_moments[cursor + 1]
           image_path == OutputPath(cue.timestamp)
       IN /\ calls' = Append(calls, Call("extract_frame", cursor + 1, image_path, TRUE))
          /\ files' = files \cup {image_path}
          /\ snapshots' = <<Snapshot(cue.timestamp, image_path, cue.context)>> \o snapshots
    /\ cursor' = cursor + 1
    /\ UNCHANGED <<callVars, pc, speech_segments, snap_moments, run_snapshots,
                   dir_exists, error>>

\* extract_frame succeeds: the frame file exists and a Snapshot is appended
ExtractFrameOk ==
    /\ pc = "extract_loop"
    /\ cursor < Len(snap_moments)
    /\ LET cue == snap_moments[cursor + 1]
           image_path == OutputPath(cue.timestamp)
       IN /\ calls' = Append(calls, Call("extract_frame", cursor + 1, image_path, TRUE))
          /\ files' = files \cup {image_path}
          /\ snapshots' = Append(snapshots,
                                 Snapshot(cue.timestamp, image_path, cue.context))
    /\ cursor' = cursor + 1
    /\ UNCHANGED <<callVars, pc, speech_segments, snap_moments, run_snapshots,
                   dir_exists, error>>

\* extract_all_snapshots returns; run_pipeline binds snapshots
ExtractAllReturn ==
    /\ pc = "extract_loop"
    /\ cursor = Len(snap_moments)
    /\ run_snapshots' = [bound |-> TRUE, list |-> snapshots]
    /\ pc' = "step3"
    /\ UNCHANGED <<callVars, speech_segments, snap_moments, snapshots, cursor,
                   files, dir_exists, calls, error>>

\* Step 3: extract_and_combine_segments raises on an empty list
ExtractClipsEmpty ==
    /\ pc = "step3"
    /\ speech_segments = <<>>
    /\ error' = "ValueError(extract_and_combine_segments)"
    /\ pc' = "raised"
    /\ UNCHANGED <<callVars, speech_segments, snap_moments, snapshots, run_snapshots,
                   cursor, files, dir_exists, calls>>

\* the extract_segment calls of the run, in call order
ClipCalls == SelectSeq(calls, LAMBDA c : c.op = "extract_segment")

\* Step 3, loop of lines 34-37: extract_segment of the next interval succeeds
ExtractSegmentOk ==
    /\ pc = "step3"
    /\ speech_segments # <<>>
    /\ Len(ClipCalls) < Len(speech_segments)
    /\ calls' = Append(calls, Call("extract_segment", Len(ClipCalls) + 1, 0, TRUE))
    /\ UNCHANGED <<callVars, pc, speech_segments, snap_moments, snapshots, run_snapshots,
                   cursor, files, dir_exists, error>>

\* Step 3: ffmpeg fails in extract_segment, subprocess.run(check=True) raises
ExtractSegmentFail ==
    /\ pc = "step3"
    /\ speech_segments # <<>>
    /\ Len(ClipCalls) < Len(speech_segments)
    /\ calls' = Append(calls, Call("extract_segment", Len(ClipCalls) + 1, 0, FALSE))
    /\ error' = "CalledProcessError(extract_and_combine_segments)"
    /\ pc' = "raised"
    /\ UNCHANGED <<callVars, speech_segments, snap_moments, snapshots, run_snapshots,
                   cursor, files, dir_exists>>

\* Step 3: every clip is extracted and ffmpeg fails in concatenate_segments
ExtractClipsFail ==
    /\ pc = "step3"
    /\ speech_segments # <<>>
    /\ Len(ClipCalls) = Len(speech_segments)
    /\ calls' = Append(calls, Call("concatenate_segments", 0, 0, FALSE))
    /\ error' = "CalledProcessError(extract_and_combine_segments)"
    /\ pc' = "raised"
    /\ UNCHANGED <<callVars, speech_segments, snap_moments, snapshots, run_snapshots,
                   cursor, files, dir_exists>>

\* run_pipeline goes from step 3 straight to cleanup_snapshots
ExtractClipsOk_CleanupFirst ==
    /\ pc = "step3"
    /\ speech_segments # <<>>
    /\ Len(ClipCalls) = Len(speech_segments)
    /\ calls' = Append(calls, Call("concatenate_segments", 0, 0, TRUE))
    /\ cursor' = 0
    /\ pc' = "step7"
    /\ UNCHANGED <<callVars, speech_segments, snap_moments, snapshots, run_snapshots,
                   files, dir_exists, error>>

\* the empty list is not refused: the concatenation is run on no clips
ExtractClipsOk_NoClips ==
    /\ pc = "step3"
    /\ Len(ClipCalls) = Len(speech_segments)
    /\ calls' = Append(calls, Call("concatenate_segments", 0, 0, TRUE))
    /\ pc' = "step5"
    /\ UNCHANGED <<callVars, speech_segments, snap_moments, snapshots, run_snapshots,
                   cursor, files, dir_exists, error>>

\* Step 3: every clip is extracted, concatenate_segments succeeds and
\* extract_and_combine_segments returns (step 4 reads the project directory
\* only and is folded in)
ExtractClipsOk ==
    /\ pc = "step3"
    /\ speech_segments # <<>>
    /\ Len(ClipCalls) = Len(speech_segments)
    /\ calls' = Append(calls, Call("concatenate_segments", 0, 0, TRUE))
    /\ pc' = "step5"
    /\ UNCHANGED <<callVars, speech_segments, snap_moments, snapshots, run_snapshots,
                   cursor, files, dir_exists, error>>

\* Step 5: analyze_video raises (no API key, failed upload, service error)
AnalyzeFail ==
    /\ pc = "step5"
    /\ calls' = Append(calls, Call("analyze_video", 0, 0, FALSE))
    /\ error' = "Error(analyze_video)"
    /\ pc' = "raised"
    /\ UNCHANGED <<callVars, speech_segments, snap_moments, snapshots, run_snapshots,
                   cursor, files, dir_exists>>

\* Step 5: analyze_video, called with transcription and snapshots but without
\* segments (lines 78-84), returns; result keeps the prompt_parts it sent
AnalyzeOk ==
    /\ pc = "step5"
    /\ calls' = Append(calls, Call("analyze_video", 0, 0, TRUE))
    /\ result' = PromptParts(NoneArg, ListArg(run_snapshots.list))
    /\ pc' = "step6"
    /\ UNCHANGED <<segments, params, prev, mode, speech_segments, snap_moments, snapshots,
                   run_snapshots, cursor, files, dir_exists, error>>

\* Step 6: generate_markdown returns; step 7 calls cleanup_snapshots(snapshots)
GenerateMarkdown ==
    /\ pc = "step6"
    /\ calls' = Append(calls, Call("generate_markdown", 0, 0, TRUE))
    /\ cursor' = 0
    /\ pc' = "step7"
    /\ UNCHANGED <<callVars, speech_segments, snap_moments, snapshots, run_snapshots,
                   files, dir_exists, error>>

\* unlink() is called without the exists() test and raises on a missing file
CleanupSkip_Raise ==
    /\ pc = "step7"
    /\ cursor < Len(run_snapshots.list)
    /\ run_snapshots.list[cursor + 1].image_path \notin files
    /\ cursor' = cursor + 1
    /\ error' = "FileNotFoundError(unlink)"
    /\ pc' = "raised"
    /\ UNCHANGED <<callVars, speech_segments, snap_moments, snapshots, run_snapshots,
                   files, dir_exists, calls>>

\* cleanup_snapshots: image_path.exists() is false, nothing is deleted
CleanupSkip ==
    /\ pc = "step7"
    /\ cursor < Len(run_snapshots.list)
    /\ run_snapshots.list[cursor + 1].image_path \notin files
    /\ cursor' = cursor + 1
    /\ UNCHANGED <<callVars, pc, speech_segments, snap_moments, snapshots, run_snapshots,
                   files, dir_exists, calls, error>>

\* cleanup_snapshots: the file exists and unlink() removes it
CleanupUnlinkOk ==
    /\ pc = "step7"
    /\ cursor < Len(run_snapshots.list)
    /\ LET image_path == run_snapshots.list[cursor + 1].image_path
       IN /\ image_path \in files
          /\ files' = files \ {image_path}
          /\ calls' = Append(calls, Call("unlink", cursor + 1, image_path, TRUE))
    /\ cursor' = cursor + 1
    /\ UNCHANGED <<callVars, pc, speech_segments, snap_moments, snapshots, run_snapshots,
                   dir_exists, error>>

\* cleanup_snapshots: the file exists and unlink() raises (permission denied);
\* the exception leaves the loop, cleanup_snapshots and run_pipeline
CleanupUnlinkFail ==
    /\ pc = "step7"
    /\ cursor < Len(run_snapshots.list)
    /\ LET image_path == run_snapshots.list[cursor + 1].image_path
       IN /\ image_path \in files
          /\ calls' = Append(calls, Call("unlink", cursor + 1, image_path, FALSE))
    /\ cursor' = cursor + 1
    /\ error' = "PermissionError(unlink)"
    /\ pc' = "raised"
    /\ UNCHANGED <<callVars, speech_segments, snap_moments, snapshots, run_snapshots,
                   files, dir_exists>>

\* cleanup_snapshots reading snapshots[0] before its loop: an empty list raises
CleanupReturn_RaiseOnEmpty ==
    /\ pc = "step7"
    /\ cursor = Len(run_snapshots.list)
    /\ IF run_snapshots.list = <<>>
       THEN error' = "IndexError(cleanup_snapshots)" /\ pc' = "raised"
       ELSE error' = error /\ pc' = "done"
    /\ UNCHANGED <<callVars, speech_segments, snap_moments, snapshots, run_snapshots,
                   cursor, files, dir_exists, calls>>

\* cleanup_snapshots returns and run_pipeline returns its AnalysisResult
CleanupReturn ==
    /\ pc = "step7"
    /\ cursor = Len(run_snapshots.list)
    /\ pc' = "done"
    /\ UNCHANGED <<callVars, speech_segments, snap_moments, snapshots, run_snapshots,
                   cursor, files, dir_exists, calls, error>>

Next ==
    \/ DetectSpeech
    \/ ExtractAllBegin
    \/ ExtractFrameOk
    \/ ExtractFrameFail
    \/ ExtractAllReturn
    \/ ExtractClipsEmpty
    \/ ExtractSegmentOk
    \/ ExtractSegmentFail
    \/ ExtractClipsOk
    \/ ExtractClipsFail
    \/ AnalyzeOk
    \/ AnalyzeFail
    \/ GenerateMarkdown
    \/ CleanupSkip
    \/ CleanupUnlinkOk
    \/ CleanupUnlinkFail
    \/ CleanupReturn

Spec == Init /\ [][Next]_vars

---------------------------------------------------------------------------
(* Claims about run_pipeline, checked under Spec *)

ExtractFailed(k) == calls[k].op = "extract_frame" /\ ~calls[k].ok

\* C5: every cue timestamp of a pipeline run is interpolated over the start and
\* end of a raw recognizer span that holds a keyword at the cue's word position.
C5_CuesFromRawSpans ==
    \A c \in 1..Len(snap_moments) :
        \E r \in 1..Len(segments) :
            LET words == Split(segments[r].text)
                n == Max(Len(words), 1)
            IN \E i \in 0..(Len(words) - 1) :
                  /\ \E k \in 1..Len(SNAP_KEYWORDS) :
                        Contains(SNAP_KEYWORDS[k], Lower(words[i + 1]))
                  /\ snap_moments[c].timestamp
                        = Rat(segments[r].start * n
                                + (segments[r].end - segments[r].start) * i, n)

\* C6: when a run ends, normally or because the extraction of some cue failed,
\* unlink has been invoked exactly once on every frame file that was extracted.
C6_EveryFrameDeletedOnce ==
    (pc = "done" \/ (pc = "raised" /\ error = "CalledProcessError(extract_frame)")) =>
        \A k \in 1..Len(calls) :
            (calls[k].op = "extract_frame" /\ calls[k].ok) =>
                Cardinality({j \in 1..Len(calls) :
                                calls[j].op = "unlink" /\ calls[j].path = calls[k].path}) = 1

\* C7: when cleanup_snapshots has ended, by returning or by surfacing a failed
\* unlink, the deletion of every Snapshot of the list has been attempted.
C7_CleanupAttemptsAll ==
    (pc = "done" \/ error = "PermissionError(unlink)") =>
        cursor = Len(run_snapshots.list)

\* C8: a failed extract_frame call is the last external call of the run: the
\* exception has left run_pipeline, no Snapshot list was returned, every cue
\* before the failing one was extracted once, in order, and neither the failing
\* cue nor any later cue is extracted afterwards.
C8_ExtractFailureIsFatal ==
    \A k \in 1..Len(calls) :
        ExtractFailed(k) =>
            /\ pc = "raised"
            /\ error = "CalledProcessError(extract_frame)"
            /\ ~run_snapshots.bound
            /\ k = Len(calls)
            /\ \A j \in 1..k : calls[j].op = "extract_frame" /\ calls[j].cue = j
            /\ \A j \in 1..(k - 1) : calls[j].ok

\* the second of three cues failed after the first had been extracted
C8_Witness ==
    /\ Len(snap_moments) = 3
    /\ Len(calls) = 2
    /\ calls[1].ok
    /\ ExtractFailed(2)

\* C9: while analyze_video and generate_markdown run, the image file of every
\* Snapshot of the run exists; a step deletes a snapshot file only inside
\* cleanup_snapshots, after analyze_video and generate_markdown have returned.
C9_FilesLiveUntilCleanup ==
    [][/\ pc \in {"step5", "step6"} =>
            \A k \in 1..Len(run_snapshots.list) :
                run_snapshots.list[k].image_path \in files
       /\ (\E f \in files : f \notin files') =>
            /\ pc = "step7"
            /\ \E j \in 1..Len(calls) : calls[j].op = "analyze_video" /\ calls[j].ok
            /\ \E j \in 1..Len(calls) : calls[j].op = "generate_markdown" /\ calls[j].ok
      ]_vars

\* analysis and markdown generation have returned with two snapshot files still
\* on disk, and cleanup has deleted the first of them
C9_Witness ==
    /\ pc = "step7"
    /\ Len(run_snapshots.list) >= 2
    /\ cursor = 1
    /\ Cardinality(files) >= 1
    /\ calls[Len(calls)].op = "unlink"
    /\ calls[Len(calls)].ok

\* the extract_frame calls of the run, in call order
ExtractCalls == SelectSeq(calls, LAMBDA c : c.op = "extract_frame")

\* C16: extract_all_snapshots calls extract_frame once per cue, one call after the
\* other in cue order, each with its cue's timestamp; when all calls succeed it
\* returns one Snapshot per cue in the same order, carrying the timestamp and
\* context of its cue and the path its own extract_frame call returned.
C16_OneExtractionPerCue ==
    /\ Len(ExtractCalls) <= Len(snap_moments)
    /\ \A k \in 1..Len(ExtractCalls) :
          /\ ExtractCalls[k].cue = k
          /\ ExtractCalls[k].path = OutputPath(snap_moments[k].timestamp)
          /\ k < Len(ExtractCalls) => ExtractCalls[k].ok
    /\ run_snapshots.bound =>
          /\ Len(ExtractCalls) = Len(snap_moments)
          /\ Len(run_snapshots.list) = Len(snap_moments)
          /\ \A k \in 1..Len(snap_moments) :
                /\ ExtractCalls[k].ok
                /\ run_snapshots.list[k] =
                       Snapshot(snap_moments[k].timestamp, ExtractCalls[k].path,
                                snap_moments[k].context)

\* extract_all_snapshots returned Snapshots for two cues of different timestamps
C16_Witness ==
    /\ run_snapshots.bound
    /\ Len(snap_moments) >= 2
    /\ Len(run_snapshots.list) = Len(snap_moments)
    /\ run_snapshots.list[1].timestamp # run_snapshots.list[2].timestamp

---------------------------------------------------------------------------
(* Specification SpecCleanup: a caller holding a Snapshot list, some of    *)
(* whose files exist, calls cleanup_snapshots and, after it returned,      *)
(* calls it once more with the same list.                                  *)

\* Snapshots as extract_all_snapshots builds them, one per whole tick
CleanupSnapshots ==
    {Snapshot(Rat(t, 1), OutputPath(Rat(t, 1)), <<>>) : t \in 0..MaxTime}

CleanupPaths == {snap.image_path : snap \in CleanupSnapshots}

InitCleanup ==
    /\ pc = "step7"
    /\ run_snapshots \in [bound : {TRUE}, list : SeqsUpTo(CleanupSnapshots, MaxSnaps)]
    /\ files \in SUBSET CleanupPaths
    /\ cursor = 0
    /\ mode = "first"
    /\ segments = <<>>
    /\ params = WhisperDefaults
    /\ result = <<>>
    /\ prev = <<>>
    /\ speech_segments = <<>>
    /\ snap_moments = <<>>
    /\ snapshots = <<>>
    /\ dir_exists = TRUE
    /\ calls = <<>>
    /\ error = "none"

\* the caller calls cleanup_snapshots a second time with the same list
CleanupAgain ==
    /\ pc = "done"
    /\ mode = "first"
    /\ mode' = "again"
    /\ cursor' = 0
    /\ pc' = "step7"
    /\ UNCHANGED <<segments, params, result, prev, speech_segments, snap_moments,
                   snapshots, run_snapshots, files, dir_exists, calls, error>>

NextCleanup ==
    \/ CleanupSkip
    \/ CleanupUnlinkOk
    \/ CleanupUnlinkFail
    \/ CleanupReturn
    \/ CleanupAgain

SpecCleanup == InitCleanup /\ [][NextCleanup]_vars

\* C17: cleanup_snapshots deletes the file of every Snapshot whose file exists and
\* passes over a Snapshot whose file is missing without raising; when a cleanup
\* has returned, no Snapshot of the list has an existing file, and a second
\* cleanup of the same list raises nothing and changes nothing.
C17_CleanupIdempotent ==
    [][ /\ (/\ pc = "step7"
            /\ cursor < Len(run_snapshots.list)
            /\ run_snapshots.list[cursor + 1].image_path \notin files)
              => (files' = files /\ error' = "none" /\ pc' = "step7")
        /\ (pc = "step7" /\ pc' = "done")
              => \A k \in 1..Len(run_snapshots.list) :
                     run_snapshots.list[k].image_path \notin files'
        /\ mode = "again"
              => (files' = files /\ calls' = calls /\ error' = "none" /\ pc' # "raised")
      ]_vars

\* a second cleanup has returned; the first one deleted a file and passed over
\* a Snapshot whose file was missing
C17_Witness ==
    /\ pc = "done"
    /\ mode = "again"
    /\ error = "none"
    /\ Len(run_snapshots.list) = 2
    /\ Len(calls) = 1
    /\ calls[1].op = "unlink" /\ calls[1].ok
    /\ run_snapshots.list[1].image_path # run_snapshots.list[2].image_path

---------------------------------------------------------------------------
(* Further properties of merge_speech_segments, checked under SpecMerge *)

\* the texts of a span list, in list order
TextsOf(segs) == [k \in 1..Len(segs) |-> segs[k].text]

\* C18: the texts of the merge output, joined by single spaces in output order,
\* equal the texts of all input spans joined by single spaces in input order: no
\* span text is lost, truncated, deduplicated or reordered by merging.
C18_TextPreserved ==
    pc = "merge_return" =>
        Join(TextsOf(result), <<" ">>) = Join(TextsOf(segments), <<" ">>)

\* three spans with the texts A, B, A merged into fewer intervals
C18_Witness ==
    /\ pc = "merge_return"
    /\ mode = "extended"
    /\ Len(segments) = 3
    /\ Len(result) = 2
    /\ TextsOf(segments) = <<T_A, T_B, T_A>>
    /\ result[1].text = T_A \o <<" ">> \o T_B

\* every span after the first starts no later than gap_threshold after the end
\* of the span before it
Chained(segs, gap_threshold) ==
    /\ segs # <<>>
    /\ \A k \in 1..(Len(segs) - 1) : segs[k + 1].start <= segs[k].end + gap_threshold

\* C19: a list of spans in which each span starts within gap_threshold of the end
\* of the span before it collapses into exactly one interval, whose start is the
\* first span's start, whose end is the maximum end of all spans and whose text
\* is the space-joined concatenation of the span texts in order.
C19_ChainCollapses ==
    (pc = "merge_return" /\ Chained(segments, params.gap_threshold)) =>
        /\ Len(result) = 1
        /\ result[1].start = segments[1].start
        /\ \A k \in 1..Len(segments) : result[1].end >= segments[k].end
        /\ \E k \in 1..Len(segments) : result[1].end = segments[k].end
        /\ result[1].text = Join(TextsOf(segments), <<" ">>)

\* a chain of three spans, one of them starting exactly gap_threshold after the
\* end of the span before it, the longest span not being the last
C19_Witness ==
    /\ pc = "merge_return"
    /\ mode = "extended"
    /\ Len(segments) = 3
    /\ Chained(segments, params.gap_threshold)
    /\ params.gap_threshold > 0
    /\ segments[2].start = segments[1].end + params.gap_threshold
    /\ segments[3].end < segments[2].end
    /\ Len(result) = 1

---------------------------------------------------------------------------
(* A further property of detect_speech_segments_whisper, checked under     *)
(* SpecWhisper                                                             *)

\* C20: padding maps each kept recognizer segment to start' = max(0, start -
\* padding_before) and end' = end + padding_after before the merge, so every
\* interval detect_speech_segments_whisper returns has start >= 0, also when
\* padding_before exceeds the raw start.
C20_PaddingClamped ==
    pc = "whisper_return" =>
        /\ result = merge_speech_segments(
                        [j \in 1..Len(RawKept) |->
                            [start |-> IF RawKept[j].start > params.padding_before
                                       THEN RawKept[j].start - params.padding_before
                                       ELSE 0,
                             end   |-> RawKept[j].end + params.padding_after,
                             text  |-> Strip(RawKept[j].text)]],
                        params.merge_gap)
        /\ \A k \in 1..Len(result) : result[k].start >= 0

\* a kept segment starts later than 0 and earlier than padding_before
C20_Witness ==
    /\ pc = "whisper_return"
    /\ RawKept # <<>>
    /\ RawKept[1].start > 0
    /\ RawKept[1].start < params.padding_before
    /\ result # <<>>
    /\ result[1].start = 0

---------------------------------------------------------------------------
(* Properties of the sitting on run_pipeline, analyze_video and the clips *)

\* C21: merge_speech_segments of the empty list returns the empty list, and of a
\* one-element list [x] it returns exactly one interval with x's start, end and
\* text, for every gap_threshold.
C21_MergeEmptyAndSingle ==
    pc = "merge_return" =>
        /\ segments = <<>> => result = <<>>
        /\ Len(segments) = 1 =>
              /\ Len(result) = 1
              /\ result[1].start = segments[1].start
              /\ result[1].end = segments[1].end
              /\ result[1].text = segments[1].text

\* the call on a one-element list with the largest threshold has returned
C21_Witness ==
    /\ pc = "merge_return"
    /\ mode = "extended"
    /\ Len(segments) = 1
    /\ params.gap_threshold = MaxGap
    /\ result = segments

\* C22: extract_all_snapshots makes sure the output directory exists before the
\* first extract_frame call is issued, and also when there are no cues at all.
C22_DirBeforeExtraction ==
    [][ /\ Len(ExtractCalls') > Len(ExtractCalls) => dir_exists
        /\ pc' = "extract_loop" => dir_exists'
        /\ run_snapshots'.bound => dir_exists'
      ]_vars

\* the first extract_frame call has been issued
C22_Witness ==
    /\ pc = "extract_loop"
    /\ Len(ExtractCalls) = 1
    /\ dir_exists

\* C23: extract_all_snapshots with zero cues issues no extract_frame call and
\* returns the empty list, and cleanup_snapshots of the empty list deletes
\* nothing and raises nothing.
C23_NoCuesNoWork ==
    [][ /\ (run_snapshots'.bound /\ snap_moments' = <<>>) =>
              (ExtractCalls' = <<>> /\ run_snapshots'.list = <<>>)
        /\ (pc = "step7" /\ run_snapshots.list = <<>>) =>
              /\ files' = files
              /\ calls' = calls
              /\ error' = "none"
              /\ pc' = "done"
      ]_vars

\* a run without cues has returned from cleanup_snapshots
C23_Witness ==
    /\ pc = "done"
    /\ speech_segments # <<>>
    /\ snap_moments = <<>>
    /\ run_snapshots.bound
    /\ run_snapshots.list = <<>>
    /\ error = "none"

\* C24: step 5 of run_pipeline sends the captured snapshots to the analysis
\* service: whenever at least one snapshot was captured, the prompt handed to the
\* model includes every snapshot's image and context, and is not the text-only
\* fallback that reports that no snapshots were captured.
C24_SnapshotsInPrompt ==
    (pc \in {"step6", "step7", "done"} /\ run_snapshots.list # <<>>) =>
        /\ \A k \in 1..Len(run_snapshots.list) :
              /\ \E j \in 1..Len(result) :
                    result[j] = PromptPart("snapshot_image", <<run_snapshots.list[k]>>)
              /\ \E j \in 1..Len(result) :
                    result[j] = PromptPart("snapshot_context", <<run_snapshots.list[k]>>)
        /\ \A j \in 1..Len(result) : result[j] # FallbackPrompt

\* C25: on every exit path of run_pipeline after the snapshots were returned
\* (clip extraction raising, the analysis call raising, or normal return), every
\* snapshot image file the run created has been deleted when run_pipeline exits.
C25_FilesDeletedOnEveryExit ==
    (/\ run_snapshots.bound
     /\ \/ pc = "done"
        \/ /\ pc = "raised"
           /\ error \in {"ValueError(extract_and_combine_segments)",
                          "CalledProcessError(extract_and_combine_segments)",
                          "Error(analyze_video)"})
        => \A k \in 1..Len(run_snapshots.list) :
               run_snapshots.list[k].image_path \notin files

\* C26: no two Snapshots returned by one extract_all_snapshots call have the same
\* image path, also for two cues with equal timestamps or timestamps that agree
\* to two decimals, so cleanup_snapshots deletes one distinct file per Snapshot.
C26_DistinctPaths ==
    /\ run_snapshots.bound =>
          \A a, b \in 1..Len(run_snapshots.list) :
              a # b => run_snapshots.list[a].image_path # run_snapshots.list[b].image_path
    /\ pc = "done" =>
          Cardinality({j \in 1..Len(calls) : calls[j].op = "unlink" /\ calls[j].ok})
              = Len(run_snapshots.list)

\* C27: for every input list whose spans have non-decreasing start and start <=
\* end, every input span lies inside exactly one output interval, every output
\* start is the start of some input span and every output end is the end of some
\* input span: merging never drops or shrinks speech time and invents no boundary.
C27_SpansCovered ==
    (pc = "merge_return" /\ Ordered(segments)) =>
        /\ \A k \in 1..Len(segments) :
              Cardinality({j \in 1..Len(result) :
                              /\ result[j].start <= segments[k].start
                              /\ segments[k].end <= result[j].end}) = 1
        /\ \A j \in 1..Len(result) :
              /\ \E k \in 1..Len(segments) : result[j].start = segments[k].start
              /\ \E k \in 1..Len(segments) : result[j].end = segments[k].end

\* three ordered spans in two intervals; the first interval ends where its
\* second span ends, later than its first span
C27_Witness ==
    /\ pc = "merge_return"
    /\ mode = "extended"
    /\ Ordered(segments)
    /\ Len(segments) = 3
    /\ Len(result) = 2
    /\ segments[2].end > segments[1].end
    /\ result[1].end = segments[2].end

---------------------------------------------------------------------------
(* Specification SpecLegacy: a caller applies merge_segments to the        *)
(* (start, end) pairs of a span list and merge_speech_segments to the list *)
(* itself, with the same threshold.                                        *)

\* the (start, end) pairs of a span list
PairsOf(segs) == [k \in 1..Len(segs) |-> <<segs[k].start, segs[k].end>>]

LegacySpans == {x \in MergeSpans : x.text = T_A}

InitLegacy ==
    /\ pc = "legacy_call"
    /\ segments \in SeqsUpTo(LegacySpans, MaxSpans)
    /\ params \in [gap_threshold : 0..MaxGap]
    /\ result = <<>>
    /\ prev = <<>>
    /\ mode = "first"
    /\ NoPipe

\* both calls run to their return: result holds what merge_segments returned,
\* prev what merge_speech_segments returned
LegacyCall ==
    /\ pc = "legacy_call"
    /\ result' = merge_segments(PairsOf(segments), params.gap_threshold)
    /\ prev' = merge_speech_segments(segments, params.gap_threshold)
    /\ pc' = "legacy_return"
    /\ UNCHANGED <<segments, params, mode, pipeVars>>

NextLegacy == LegacyCall

SpecLegacy == InitLegacy /\ [][NextLegacy]_vars

\* C28: for every span list S and threshold g, merge_segments applied to the
\* (start, end) pairs of S returns exactly the (start, end) pairs of
\* merge_speech_segments(S, g), in the same order.
C28_LegacyMergeAgrees ==
    pc = "legacy_return" => result = PairsOf(prev)

\* three spans merged into two intervals by both functions
C28_Witness ==
    /\ pc = "legacy_return"
    /\ Len(segments) = 3
    /\ Len(result) = 2
    /\ Len(prev) = 2
    /\ result[1] = <<prev[1].start, prev[1].end>>
    /\ result[1][2] > segments[1].end

---------------------------------------------------------------------------
(* Specification SpecAnalyze: one call of analyze_video.  params holds the *)
(* arguments and whether GEMINI_API_KEY is set; mode is video_file.state   *)
(* as the caller last read it, prev the state the uploaded file has at the *)
(* service; result holds prompt_parts.                                     *)

FileStates == {"PROCESSING", "ACTIVE", "FAILED"}

AnalyzeSegmentArgs ==
    {NoneArg, ListArg(<<>>), ListArg(<<SpeechSegment(0, 1, T_A)>>)}

AnalyzeSnapshotArgs ==
    {NoneArg} \cup {ListArg(l) : l \in SeqsUpTo(CleanupSnapshots, MaxSnaps)}

InitAnalyze ==
    /\ pc = "analyze_entry"
    /\ params \in [segments : AnalyzeSegmentArgs, snapshots : AnalyzeSnapshotArgs,
                    api_key : BOOLEAN]
    /\ mode = "none"
    /\ prev = "none"
    /\ result = <<>>
    /\ segments = <<>>
    /\ NoPipe

analyzeFrame == <<segments, params, speech_segments, snap_moments, snapshots,
                  run_snapshots, files, dir_exists>>

\* lines 349-351: GEMINI_API_KEY is not set
AnalyzeNoKey ==
    /\ pc = "analyze_entry"
    /\ ~params.api_key
    /\ error' = "ValueError(GEMINI_API_KEY)"
    /\ pc' = "raised"
    /\ UNCHANGED <<analyzeFrame, mode, prev, result, cursor, calls>>

\* line 353: genai.configure
AnalyzeConfigure ==
    /\ pc = "analyze_entry"
    /\ params.api_key
    /\ pc' = "upload_video"
    /\ UNCHANGED <<analyzeFrame, mode, prev, result, cursor, calls, error>>

\* genai.upload_file of the video (lines 310, 366, 386): the returned file is in
\* any of the states; the multimodal branch goes on to the snapshot images, the
\* other branches to their polling loop
UploadVideo ==
    /\ pc = "upload_video"
    /\ \E st \in FileStates : mode' = st /\ prev' = st
    /\ calls' = Append(calls, Call("upload_file", 0, 0, TRUE))
    /\ cursor' = 0
    /\ pc' = IF AnalyzeBranch(params.segments, params.snapshots) = "multimodal"
             THEN "upload_snapshots" ELSE "poll"
    /\ UNCHANGED <<analyzeFrame, result, error>>

\* the service finishes processing the uploaded video, at any time
ServiceFinish ==
    /\ pc \in {"upload_snapshots", "poll", "generate"}
    /\ prev = "PROCESSING"
    /\ \E st \in {"ACTIVE", "FAILED"} : prev' = st
    /\ UNCHANGED <<analyzeFrame, pc, mode, result, cursor, calls, error>>

\* build_multimodal_prompt, line 317: upload of one snapshot image
UploadSnapshot ==
    /\ pc = "upload_snapshots"
    /\ cursor < Len(params.snapshots.list)
    /\ calls' = Append(calls, Call("upload_file", cursor + 1,
                                   params.snapshots.list[cursor + 1].image_path, TRUE))
    /\ cursor' = cursor + 1
    /\ UNCHANGED <<analyzeFrame, pc, mode, prev, result, error>>

\* build_multimodal_prompt returns (lines 320-324, 359-361)
MultimodalBuilt ==
    /\ pc = "upload_snapshots"
    /\ cursor = Len(params.snapshots.list)
    /\ result' = PromptParts(params.segments, params.snapshots)
    /\ pc' = "generate"
    /\ UNCHANGED <<analyzeFrame, mode, prev, cursor, calls, error>>

\* lines 369-373, 389-393: the file read PROCESSING, sleep and get_file
PollGetFile ==
    /\ pc = "poll"
    /\ mode = "PROCESSING"
    /\ cursor < MaxPolls
    /\ mode' = prev
    /\ calls' = Append(calls, Call("get_file", 0, 0, TRUE))
    /\ cursor' = cursor + 1
    /\ UNCHANGED <<analyzeFrame, pc, prev, result, error>>

\* lines 375-376, 395-396: the file read FAILED
PollFailed ==
    /\ pc = "poll"
    /\ mode = "FAILED"
    /\ error' = "RuntimeError(Video processing failed)"
    /\ pc' = "raised"
    /\ UNCHANGED <<analyzeFrame, mode, prev, result, cursor, calls>>

\* lines 378-381, 398-404: the polling loop is over, the prompt is built
PollReady ==
    /\ pc = "poll"
    /\ mode \notin {"PROCESSING", "FAILED"}
    /\ result' = PromptParts(params.segments, params.snapshots)
    /\ pc' = "generate"
    /\ UNCHANGED <<analyzeFrame, mode, prev, cursor, calls, error>>

\* lines 407-411: model.generate_content(prompt_parts) returns
GenerateContent ==
    /\ pc = "generate"
    /\ calls' = Append(calls, Call("generate_content", 0, 0, TRUE))
    /\ pc' = "analyze_return"
    /\ UNCHANGED <<analyzeFrame, mode, prev, result, cursor, error>>

\* line 408: model.generate_content raises
GenerateContentFail ==
    /\ pc = "generate"
    /\ calls' = Append(calls, Call("generate_content", 0, 0, FALSE))
    /\ error' = "Error(generate_content)"
    /\ pc' = "raised"
    /\ UNCHANGED <<analyzeFrame, mode, prev, result, cursor>>

NextAnalyze ==
    \/ AnalyzeNoKey
    \/ AnalyzeConfigure
    \/ UploadVideo
    \/ ServiceFinish
    \/ UploadSnapshot
    \/ MultimodalBuilt
    \/ PollGetFile
    \/ PollFailed
    \/ PollReady
    \/ GenerateContent
    \/ GenerateContentFail

SpecAnalyze == InitAnalyze /\ [][NextAnalyze]_vars

\* C29: analyze_video never requests content generation with an uploaded video
\* that is still PROCESSING or that is FAILED: in every branch generate_content
\* is called only when the upload has left PROCESSING and has not failed, a
\* FAILED upload raises RuntimeError without a call of the model, and a missing
\* GEMINI_API_KEY raises ValueError before any upload.
C29_NoGenerateBeforeReady ==
    [][ /\ (pc = "generate" /\ Len(calls') > Len(calls)) =>
              prev \notin {"PROCESSING", "FAILED"}
        /\ error' = "RuntimeError(Video processing failed)" =>
              \A j \in 1..Len(calls') : calls'[j].op # "generate_content"
        /\ ~params.api_key => (calls' = <<>> /\ pc' \in {"analyze_entry", "raised"})
      ]_vars

\* the concatenate_segments calls of the run
ConcatCalls == SelectSeq(calls, LAMBDA c : c.op = "concatenate_segments")

\* the position in the call log of the first call of an operation (0: none)
FirstCall(op) ==
    IF \E j \in 1..Len(calls) : calls[j].op = op
    THEN CHOOSE j \in 1..Len(calls) :
            calls[j].op = op /\ \A i \in 1..(j - 1) : calls[i].op # op
    ELSE 0

\* C30: extract_and_combine_segments raises ValueError on an empty interval list
\* before any external process is started; otherwise it extracts one clip per
\* interval in list order and runs the concatenation exactly once, only after
\* every clip extraction has succeeded; so a run on a recording with no detected
\* speech fails at clip extraction and never reaches the analysis call.
C30_ClipsThenConcat ==
    /\ error = "ValueError(extract_and_combine_segments)" =>
          (speech_segments = <<>> /\ ClipCalls = <<>> /\ ConcatCalls = <<>>)
    /\ Len(ClipCalls) <= Len(speech_segments)
    /\ \A k \in 1..Len(ClipCalls) :
          /\ ClipCalls[k].cue = k
          /\ k < Len(ClipCalls) => ClipCalls[k].ok
    /\ Len(ConcatCalls) <= 1
    /\ ConcatCalls # <<>> =>
          /\ Len(ClipCalls) = Len(speech_segments)
          /\ \A k \in 1..Len(ClipCalls) : ClipCalls[k].ok
          /\ \A j \in 1..Len(calls) :
                calls[j].op = "extract_segment" => j < FirstCall("concatenate_segments")
    /\ pc \in {"step5", "step6", "step7", "done"} =>
          (Len(ConcatCalls) = 1 /\ ConcatCalls[1].ok)
    /\ (speech_segments = <<>> /\ pc \notin {"step1", "step2", "extract_loop", "step3"}) =>
          /\ pc = "raised"
          /\ error = "ValueError(extract_and_combine_segments)"
          /\ FirstCall("analyze_video") = 0

\* two intervals: both clips were extracted, then the concatenation ran once
C30_Witness ==
    /\ pc = "step5"
    /\ Len(speech_segments) = 2
    /\ Len(ClipCalls) = 2
    /\ Len(ConcatCalls) = 1

====
